---- MODULE Spec2Model ----
(***************************************************************************)
(* Verification model of the quantitative momentum trader.                 *)
(*                                                                         *)
(* Part I  : the rebalance cycle (get_total_value, calculate_rebalance_-   *)
(*           orders, simulate_trades) over a simulated Position Book.      *)
(* Part II : the portfolio constructor (generate_target_portfolio and its  *)
(*           private filter / momentum steps).                             *)
(*                                                                         *)
(* Money and prices are integers; pandas / float arithmetic is modelled    *)
(* in exact rational arithmetic (a ratio is a pair <<num, den>>, den > 0). *)
(***************************************************************************)
EXTENDS Integers, Sequences, FiniteSets, TLC

(***************************************************************************)
(* Bounds of the model                                                     *)
(***************************************************************************)
MaxQty == 2        \* largest |quantity| of a position in the initial book
MaxPrice == 3      \* largest live price
MaxCash == 12      \* largest initial cash balance
MaxPasses == 2     \* rebalance passes run on one book

Universe == <<"A", "B">>                       \* the tickers, in encounter order
Tickers == {Universe[i] : i \in 1..Len(Universe)}

VARIABLES
    cash,                   \* SimulatedPortfolioManager.cash
    positions,              \* SimulatedPortfolioManager.positions (dict ticker -> int)
    target_portfolio,       \* {'longs': ..., 'shorts': ...} handed to the calculator
    live_prices,            \* dict ticker -> price, as returned by the quote fan-out
    total_portfolio_value,  \* result of get_total_value
    all_orders,             \* calculated_orders['all_orders']
    prev_positions,         \* the book before the latest simulate_trades
    prev_cash,              \* the cash before the latest simulate_trades
    passes,                 \* completed calculate/simulate passes
    pc                      \* position in the cycle

rvars == <<cash, positions, target_portfolio, live_prices, total_portfolio_value,
           all_orders, prev_positions, prev_cash, passes, pc>>

\* PortfolioConstructor and its inputs
VARIABLES
    config,           \* the strategy_config module as seen by the constructor
    company_info,     \* dict ticker -> {marketCap, sector}, in insertion order
    monthly_prices,   \* historical_data['Adj Close'].resample('ME').last(), per ticker
    daily_volatility, \* daily_returns.iloc[-VOLATILITY_LOOKBACK_DAYS:].std(), per ticker
    fill_pad,         \* whether pct_change forward-fills (pandas < 3 default 'pad')
    eligible_stocks,  \* PortfolioConstructor.eligible_stocks
    result,           \* (target_portfolio, report_df) returned by generate_target_portfolio
    cpc               \* position in generate_target_portfolio

cvars == <<config, company_info, monthly_prices, daily_volatility, fill_pad,
           eligible_stocks, result, cpc>>

\* the state files, the run of run_simulation_workflow and the callers of the book
VARIABLES
    disk,         \* csv_path -> content of the portfolio state file (None: no file)
    cycle,        \* the (strategy, timeframe) cycle being run; its state file is disk[PathOf(cycle)]
    started,      \* the cycles the run has started
    placed,       \* execute_rebalance_orders: per processed order, whether it reached the broker
    disk_before,  \* the disk when the current cycle had loaded its book
    script,       \* the simulate_trades calls a caller of the book makes, in order
    books,        \* the book after construction and after each simulate_trades call
    save_result   \* what the latest save_portfolio call of the current book showed its caller

dvars == <<disk, cycle, started, placed, disk_before, script, books, save_result>>

\* get_current_stock_prices_for_tickers: the concurrent quote requests
VARIABLES
    requested,    \* the tickers argument
    tasks,        \* per position of tickers: the request's state and outcome
    completed,    \* the positions of the finished requests, in completion order
    connected     \* IBKRBaseHandler._is_connected_flag

\* IBKRBaseHandler: the id counters and the futures registered with the wrapper
VARIABLES
    req_id_counter,     \* IBKRBaseHandler._req_id_counter
    order_id_counter,   \* IBKRBaseHandler._order_id_counter
    futures,            \* wrapper.futures: id -> the operation whose future is registered
    pending,            \* the operations that await their future
    req_ids,            \* the ids get_next_req_id has returned, in order
    order_ids           \* the ids get_next_order_id has returned, in order

hvars == <<req_id_counter, order_id_counter, futures, pending, req_ids, order_ids>>

qvars == <<requested, tasks, completed, connected, hvars>>

(***************************************************************************)
(* Helpers                                                                 *)
(***************************************************************************)
\* Iteration over a Python set of tickers: some fixed order of its elements.
SetToSeq(S) == SelectSeq(Universe, LAMBDA t : t \in S)

RECURSIVE SumOver(_, _)
SumOver(f, S) ==
    IF S = {} THEN 0
    ELSE LET x == CHOOSE y \in S : TRUE
         IN  f[x] + SumOver(f, S \ {x})

Abs(x) == IF x < 0 THEN -x ELSE x

\* dict.get(key) is None
Missing(d, k) == k \notin DOMAIN d

\* dict with key k removed / set
DictDel(d, k) == [x \in (DOMAIN d) \ {k} |-> d[x]]
DictSet(d, k, v) == [x \in (DOMAIN d) \cup {k} |-> IF x = k THEN v ELSE d[x]]

(***************************************************************************)
(* SimulatedPortfolioManager.get_total_value                               *)
(***************************************************************************)
get_total_value(csh, pos, current_prices) ==
    LET priced == {t \in DOMAIN pos : ~Missing(current_prices, t)}
        mv == [t \in priced |-> pos[t] * current_prices[t]]
    IN  csh + SumOver(mv, priced)

(***************************************************************************)
(* ExecutionManager.calculate_rebalance_orders                             *)
(***************************************************************************)
Order(a, t, q) == [action |-> a, ticker |-> t, quantity |-> q]

\* mutant of SlotQuantity: the whole portfolio value is put into every slot
SlotQuantity_whole_value(total_value, total_target_positions, price) ==
    total_value \div price

\* math.floor(position_size_per_stock / price) with
\* position_size_per_stock = total_portfolio_value / total_target_positions
SlotQuantity(total_value, total_target_positions, price) ==
    total_value \div (total_target_positions * price)

\* Step 1a: sell longs that are no longer in the target long portfolio.
longs_to_sell(tgt, current_positions) ==
    {t \in DOMAIN current_positions : current_positions[t] > 0} \ tgt.longs

\* Step 1b: cover shorts that are no longer in the target short portfolio.
shorts_to_cover(tgt, current_positions) ==
    {t \in DOMAIN current_positions : current_positions[t] < 0} \ tgt.shorts

\* mutant of longs_to_buy: target longs are bought whether held or not
longs_to_buy_held_too(tgt, current_positions) == tgt.longs

\* Step 2a: buy new longs that are not in the current portfolio.
longs_to_buy(tgt, current_positions) == tgt.longs \ DOMAIN current_positions

\* Step 2b: short new shorts that are not in the current portfolio.
shorts_to_add(tgt, current_positions) == tgt.shorts \ DOMAIN current_positions

RECURSIVE OpenOrders(_, _, _, _, _)
\* The loop body of step 2: an order only for a valid price and a quantity > 0.
OpenOrders(action, ts, total_value, n, current_prices) ==
    IF ts = <<>> THEN <<>>
    ELSE LET t == Head(ts)
             valid == ~Missing(current_prices, t) /\ current_prices[t] > 0
             q == IF valid THEN SlotQuantity(total_value, n, current_prices[t]) ELSE 0
         IN  (IF valid /\ q > 0 THEN <<Order(action, t, q)>> ELSE <<>>)
             \o OpenOrders(action, Tail(ts), total_value, n, current_prices)

calculate_rebalance_orders(tgt, current_positions, total_value, current_prices) ==
    LET sells  == SetToSeq(longs_to_sell(tgt, current_positions))
        covers == SetToSeq(shorts_to_cover(tgt, current_positions))
        step1  == [i \in 1..Len(sells) |->
                      Order("SELL", sells[i], current_positions[sells[i]])]
                  \o
                  [i \in 1..Len(covers) |->
                      Order("BUY", covers[i], Abs(current_positions[covers[i]]))]
        n      == Cardinality(tgt.longs) + Cardinality(tgt.shorts)
    IN  IF n = 0 THEN step1
        ELSE step1
             \o OpenOrders("BUY", SetToSeq(longs_to_buy(tgt, current_positions)),
                           total_value, n, current_prices)
             \o OpenOrders("SELL", SetToSeq(shorts_to_add(tgt, current_positions)),
                           total_value, n, current_prices)

(***************************************************************************)
(* SimulatedPortfolioManager.simulate_trades                               *)
(***************************************************************************)
\* mutant of ApplyOrder: the short-sale action is not recognised
ApplyOrder_no_sshort(book, order, prices) ==
    LET ticker == order.ticker
        quantity == order.quantity
        held == IF ticker \in DOMAIN book.positions THEN book.positions[ticker] ELSE 0
        signed == IF order.action = "BUY" THEN quantity
                  ELSE IF order.action = "SELL" THEN -quantity ELSE 0
        after == IF Missing(prices, ticker) THEN book
                 ELSE [cash |-> book.cash - signed * prices[ticker],
                       positions |-> IF order.action \in {"BUY", "SELL"}
                                     THEN DictSet(book.positions, ticker, held + signed)
                                     ELSE book.positions]
    IN  IF ~Missing(prices, ticker) /\ ticker \in DOMAIN after.positions
           /\ after.positions[ticker] = 0
        THEN [after EXCEPT !.positions = DictDel(after.positions, ticker)]
        ELSE after

\* mutant of ApplyOrder: a sale changes the position but credits no cash
ApplyOrder_sale_uncredited(book, order, prices) ==
    LET ticker == order.ticker
        quantity == order.quantity
        price == IF Missing(prices, ticker) THEN 0 ELSE prices[ticker]
        held == IF ticker \in DOMAIN book.positions THEN book.positions[ticker] ELSE 0
        after ==
            IF order.action = "BUY"
            THEN [cash |-> book.cash - quantity * price,
                  positions |-> DictSet(book.positions, ticker, held + quantity)]
            ELSE IF order.action \in {"SELL", "SSHORT"}
            THEN [cash |-> book.cash,
                  positions |-> DictSet(book.positions, ticker, held - quantity)]
            ELSE book
    IN  IF Missing(prices, ticker) THEN book
        ELSE IF ticker \in DOMAIN after.positions /\ after.positions[ticker] = 0
             THEN [after EXCEPT !.positions = DictDel(after.positions, ticker)]
             ELSE after

\* One iteration of the loop: the book [cash, positions] after one order.
ApplyOrder(book, order, prices) ==
    LET ticker == order.ticker
        quantity == order.quantity
        price == IF Missing(prices, ticker) THEN 0 ELSE prices[ticker]
        held == IF ticker \in DOMAIN book.positions THEN book.positions[ticker] ELSE 0
        after ==
            IF order.action = "BUY"
            THEN [cash |-> book.cash - quantity * price,
                  positions |-> DictSet(book.positions, ticker, held + quantity)]
            ELSE IF order.action \in {"SELL", "SSHORT"}
            THEN [cash |-> book.cash + quantity * price,
                  positions |-> DictSet(book.positions, ticker, held - quantity)]
            ELSE book
    IN  IF Missing(prices, ticker) THEN book
        ELSE IF ticker \in DOMAIN after.positions /\ after.positions[ticker] = 0
             THEN [after EXCEPT !.positions = DictDel(after.positions, ticker)]
             ELSE after

RECURSIVE simulate_trades_break(_, _, _)
\* mutant of simulate_trades: an order without price ends the loop
simulate_trades_break(book, orders, prices) ==
    IF orders = <<>> \/ Missing(prices, Head(orders).ticker) THEN book
    ELSE simulate_trades_break(ApplyOrder(book, Head(orders), prices), Tail(orders), prices)

RECURSIVE simulate_trades(_, _, _)
simulate_trades(book, orders, prices) ==
    IF orders = <<>> THEN book
    ELSE simulate_trades(ApplyOrder(book, Head(orders), prices), Tail(orders), prices)

(***************************************************************************)
(* The rebalance cycle (steps 6-8 of run_simulation_workflow), repeated on *)
(* the same target and prices.                                             *)
(***************************************************************************)
CashValues == {0, MaxCash \div 2, MaxCash}
Quantities == (-MaxQty..MaxQty) \ {0}

Books == UNION {[H -> Quantities] : H \in SUBSET Tickers}
PriceMaps == UNION {[S -> 1..MaxPrice] : S \in SUBSET Tickers}
Targets == [longs : SUBSET Tickers, shorts : SUBSET Tickers]

RInit ==
    /\ cash \in CashValues
    /\ positions \in Books
    /\ target_portfolio \in Targets
    /\ live_prices \in PriceMaps
    /\ total_portfolio_value = 0
    /\ all_orders = <<>>
    /\ prev_positions = positions
    /\ prev_cash = cash
    /\ passes = 0
    /\ pc = "value"

\* Step 6: portfolio valuation.
Valuation ==
    /\ pc = "value"
    /\ passes < MaxPasses
    /\ total_portfolio_value' = get_total_value(cash, positions, live_prices)
    /\ pc' = "calc"
    /\ UNCHANGED <<cash, positions, target_portfolio, live_prices, all_orders,
                   prev_positions, prev_cash, passes>>
    /\ UNCHANGED <<cvars, dvars, qvars>>

\* Step 7: trade calculation.
Calculate ==
    /\ pc = "calc"
    /\ all_orders' = calculate_rebalance_orders(target_portfolio, positions,
                                                total_portfolio_value, live_prices)
    /\ pc' = "sim"
    /\ UNCHANGED <<cash, positions, target_portfolio, live_prices,
                   total_portfolio_value, prev_positions, prev_cash, passes>>
    /\ UNCHANGED <<cvars, dvars, qvars>>

\* Step 8 (tail): simulate the trades on the local book.
Simulate ==
    /\ pc = "sim"
    /\ LET book == simulate_trades([cash |-> cash, positions |-> positions],
                                   all_orders, live_prices)
       IN  /\ cash' = book.cash
           /\ positions' = book.positions
    /\ prev_positions' = positions
    /\ prev_cash' = cash
    /\ passes' = passes + 1
    /\ pc' = "value"
    /\ UNCHANGED <<target_portfolio, live_prices, total_portfolio_value, all_orders>>
    /\ UNCHANGED <<cvars, dvars, qvars>>

RNext == Valuation \/ Calculate \/ Simulate

(***************************************************************************)
(* Claims about the rebalance cycle                                        *)
(***************************************************************************)
OrdersFor(t) == SelectSeq(all_orders, LAMBDA o : o.ticker = t)

Calculated == pc = "sim"                   \* calculate_rebalance_orders has returned
AllPriced == (DOMAIN positions) \cup target_portfolio.longs \cup target_portfolio.shorts
                 \subseteq DOMAIN live_prices
DisjointTarget == target_portfolio.longs \cap target_portfolio.shorts = {}

\* C1: rebalancing is idempotent: after calculate_rebalance_orders, simulate_trades
\* at the same prices and a fresh valuation, the second calculate_rebalance_orders
\* returns zero orders.  Stated on the inputs most favourable to the claim: longs
\* and shorts disjoint and every held or target ticker priced.
C1_SecondPassNoOrders ==
    (Calculated /\ passes = 1 /\ DisjointTarget /\ AllPriced) => all_orders = <<>>

\* The target quantity of the equal-weight diff: +floor(dollarsPerSlot / price) for
\* a long, -floor(dollarsPerSlot / price) for a short, 0 otherwise.
TargetQuantity(t) ==
    LET n == Cardinality(target_portfolio.longs) + Cardinality(target_portfolio.shorts)
        q == IF n = 0 \/ Missing(live_prices, t) THEN 0
             ELSE SlotQuantity(total_portfolio_value, n, live_prices[t])
    IN  IF t \in target_portfolio.longs THEN q
        ELSE IF t \in target_portfolio.shorts THEN -q
        ELSE 0

CurrentQuantity(t) == IF t \in DOMAIN positions THEN positions[t] ELSE 0

\* C2: for every ticker of the union of the current positions and the target,
\* calculate_rebalance_orders emits no order when current = target and otherwise
\* exactly one order, of quantity |target - current|.  Stated for a disjoint target
\* whose tickers are all priced, on a book of positive total value.
C2_OneOrderPerDifference ==
    (Calculated /\ DisjointTarget /\ AllPriced /\ total_portfolio_value > 0) =>
        \A t \in (DOMAIN positions) \cup target_portfolio.longs \cup target_portfolio.shorts :
            IF CurrentQuantity(t) = TargetQuantity(t)
            THEN OrdersFor(t) = <<>>
            ELSE /\ Len(OrdersFor(t)) = 1
                 /\ OrdersFor(t)[1].quantity = Abs(TargetQuantity(t) - CurrentQuantity(t))

\* C3: a ticker that has no live price never receives an order from
\* calculate_rebalance_orders (so none is handed on for execution).
C3_NoOrderWithoutPrice ==
    Calculated => \A i \in 1..Len(all_orders) : all_orders[i].ticker \in DOMAIN live_prices

\* C17: every order of calculate_rebalance_orders has an action among BUY, SELL
\* and the short-sell action; an order that opens or adds to a short (current
\* quantity <= 0) carries the short-sell action, so SELL is only emitted for a
\* ticker whose current quantity is positive.
C17_ShortSellAction ==
    Calculated =>
        \A i \in 1..Len(all_orders) :
            /\ all_orders[i].action \in {"BUY", "SELL", "SSHORT"}
            /\ all_orders[i].action = "SELL" => CurrentQuantity(all_orders[i].ticker) > 0

\* |longs| + |shorts| of the target
TargetSlots == Cardinality(target_portfolio.longs) + Cardinality(target_portfolio.shorts)

\* the orders that open a position: their ticker is not in the current book
Opening(i) == all_orders[i].ticker \notin DOMAIN positions

\* q = floor((total_portfolio_value / slots) / price), said without division
IsFloorOfSlot(q, price) ==
    /\ q * TargetSlots * price <= total_portfolio_value
    /\ total_portfolio_value < (q + 1) * TargetSlots * price

\* C26: equal-weight sizing.  Every opening order is for a target ticker with a
\* live price p > 0 and has quantity floor(dollarsPerSlot / p); a target ticker
\* that is not held gets its opening order exactly when it has a price and
\* that quantity is at least 1; every order has a positive integer quantity.
C26_EqualWeightSizing ==
    Calculated =>
        /\ \A i \in 1..Len(all_orders) :
              /\ all_orders[i].quantity \in Nat \ {0}
              /\ Opening(i) =>
                    /\ all_orders[i].ticker \in target_portfolio.longs \cup target_portfolio.shorts
                    /\ all_orders[i].ticker \in DOMAIN live_prices
                    /\ live_prices[all_orders[i].ticker] > 0
                    /\ IsFloorOfSlot(all_orders[i].quantity, live_prices[all_orders[i].ticker])
        /\ \A t \in (target_portfolio.longs \cup target_portfolio.shorts) \ DOMAIN positions :
              (OrdersFor(t) # <<>>) <=>
                 /\ t \in DOMAIN live_prices
                 /\ live_prices[t] > 0
                 /\ total_portfolio_value >= TargetSlots * live_prices[t]

\* an opening order of two or more shares whose slot does not divide evenly
C26_Witness ==
    /\ Calculated
    /\ passes = 0
    /\ \E i \in 1..Len(all_orders) :
          /\ Opening(i)
          /\ all_orders[i].quantity >= 2
          /\ all_orders[i].quantity * TargetSlots * live_prices[all_orders[i].ticker]
                < total_portfolio_value

Simulated == pc = "value" /\ passes >= 1     \* simulate_trades has returned

\* C28: simulated fills conserve the portfolio value: after simulate_trades has
\* applied the orders of calculate_rebalance_orders at a price map,
\* get_total_value at that price map is what it was on the book before.
C28_FillsConserveValue ==
    Simulated =>
        /\ get_total_value(cash, positions, live_prices)
              = get_total_value(prev_cash, prev_positions, live_prices)
        /\ get_total_value(cash, positions, live_prices) = total_portfolio_value

\* a pass whose orders held a priced purchase and a priced sale and changed
\* both the cash and the positions
C28_Witness ==
    /\ Simulated
    /\ \E i, j \in 1..Len(all_orders) :
          /\ all_orders[i].action = "BUY" /\ all_orders[i].ticker \in DOMAIN live_prices
          /\ all_orders[j].action = "SELL" /\ all_orders[j].ticker \in DOMAIN live_prices
    /\ positions # prev_positions
    /\ cash # prev_cash

\* the orders the next cycle would calculate on the present book
NextOrders ==
    calculate_rebalance_orders(target_portfolio, positions,
                               get_total_value(cash, positions, live_prices), live_prices)

\* C29: repeated rebalancing converges.  With disjoint longs and shorts and a
\* price for every held and target ticker, the book after two cycles (and after
\* any later one) is a book on which calculate_rebalance_orders returns no
\* order; a cycle without orders leaves the book as it is, so it stays there.
C29_ConvergesInTwoCycles ==
    (Simulated /\ passes >= 2 /\ DisjointTarget /\ AllPriced) =>
        /\ NextOrders = <<>>
        /\ simulate_trades([cash |-> cash, positions |-> positions], NextOrders, live_prices)
              = [cash |-> cash, positions |-> positions]

\* two cycles were needed: the second cycle still had an order to place
C29_Witness ==
    /\ Simulated
    /\ passes = 2
    /\ DisjointTarget
    /\ AllPriced
    /\ all_orders # <<>>
    /\ positions # prev_positions
    /\ NextOrders = <<>>

(***************************************************************************)
(* Part II.  PortfolioConstructor                                          *)
(*                                                                         *)
(* A nullable value (None / NaN) is a set: {} or {v}.  A ratio is a pair   *)
(* <<num, den>> with den > 0.  A DataFrame is the sequence of its rows in  *)
(* index order plus the set of its column names.                           *)
(***************************************************************************)
None == {}
Some(v) == {v}
IsNull(x) == x = {}
Val(x) == CHOOSE v \in x : TRUE

Range(f) == {f[i] : i \in DOMAIN f}
Min2(a, b) == IF a < b THEN a ELSE b

\* ---- pandas Series.quantile(q), linear interpolation, q = P / D ---------
\* the k-th smallest (k = 1..Len) of a sequence of integers
KthSmallest(vals, k) ==
    CHOOSE v \in Range(vals) :
        /\ Cardinality({i \in DOMAIN vals : vals[i] < v}) < k
        /\ Cardinality({i \in DOMAIN vals : vals[i] <= v}) >= k

\* The quantile of a non-empty sequence as the ratio <<num, D>>:
\* position (n-1)*q, interpolated between the two neighbouring order statistics.
Quantile(vals, q) ==
    LET n  == Len(vals)
        P  == q[1]
        D  == q[2]
        lo == ((n - 1) * P) \div D
        fr == ((n - 1) * P) % D
        a  == KthSmallest(vals, lo + 1)
        b  == KthSmallest(vals, Min2(lo + 2, n))
    IN  <<a * D + fr * (b - a), D>>

\* integer v compared with ratio r
GeRatio(v, r) == v * r[2] >= r[1]
LeRatio(v, r) == v * r[2] <= r[1]
\* ratio a strictly greater than ratio b
GtRatio(a, b) == a[1] * b[2] > b[1] * a[2]

\* ---- DataFrame helpers ---------------------------------------------------
Row(t, cap, sec) ==
    [ticker |-> t, marketCap |-> cap, sector |-> sec, Volatility |-> None,
     Momentum |-> None, PositiveMonths |-> None, Rank |-> None, Decile |-> None]

Index(df) == {df.rows[i].ticker : i \in 1..Len(df.rows)}
CapsOf(rows) == [i \in 1..Len(rows) |-> Val(rows[i].marketCap)]

EmptyFrame == [rows |-> <<>>, columns |-> {}]

\* pd.DataFrame.from_dict(self.company_info, orient='index')
InfoFrame(info) ==
    [rows |-> [i \in 1..Len(info) |-> Row(info[i].ticker, info[i].marketCap, info[i].sector)],
     columns |-> {"marketCap", "sector"}]

\* ---- _apply_universe_filters ----------------------------------------------
\* mutant of filterLiquidity: the comparison with the cutoff is strict
filterLiquidity_strict(df, percentile) ==
    LET known == SelectSeq(df.rows, LAMBDA r : ~IsNull(r.marketCap))
    IN  [df EXCEPT !.rows =
            IF known = <<>> THEN <<>>
            ELSE SelectSeq(known, LAMBDA r :
                     ~LeRatio(Val(r.marketCap), Quantile(CapsOf(known), percentile)))]

\* Filter 1: dropna on marketCap, quantile over what is left, keep cap >= cutoff.
filterLiquidity(df, percentile) ==
    LET known == SelectSeq(df.rows, LAMBDA r : ~IsNull(r.marketCap))
    IN  [df EXCEPT !.rows =
            IF known = <<>> THEN <<>>
            ELSE SelectSeq(known, LAMBDA r :
                     GeRatio(Val(r.marketCap), Quantile(CapsOf(known), percentile)))]

\* Filter 2: drop the rows whose sector is in SECTORS_TO_EXCLUDE.
filterSectors(df, excluded) ==
    [df EXCEPT !.rows = SelectSeq(df.rows, LAMBDA r : r.sector \notin excluded)]

\* mutant of apply_universe_filters: the sector filter runs before the liquidity filter
apply_universe_filters_sector_first(info, cfg) ==
    filterLiquidity(filterSectors(InfoFrame(info), cfg.SECTORS_TO_EXCLUDE),
                    cfg.LIQUIDITY_FILTER_PERCENTILE)

apply_universe_filters(info, cfg) ==
    filterSectors(filterLiquidity(InfoFrame(info), cfg.LIQUIDITY_FILTER_PERCENTILE),
                  cfg.SECTORS_TO_EXCLUDE)

\* ---- _calculate_12_2_momentum ----------------------------------------------
RECURSIVE Ffill(_)
\* forward fill: a missing value takes the latest earlier value, if any
Ffill(series) ==
    IF series = <<>> THEN <<>>
    ELSE LET init == Ffill(SubSeq(series, 1, Len(series) - 1))
             last == series[Len(series)]
         IN  Append(init, IF IsNull(last) /\ init # <<>> THEN init[Len(init)] ELSE last)

\* Series.pct_change(periods): data / data.shift(periods) - 1, where data is the
\* series itself or, with the default fill_method of pandas < 3, its forward fill.
pct_change(series, periods, pad) ==
    LET data == IF pad THEN Ffill(series) ELSE series
    IN  [i \in 1..Len(series) |->
            IF (i - periods) \in 1..Len(series)
               /\ ~IsNull(data[i]) /\ ~IsNull(data[i - periods])
            THEN Some(<<Val(data[i]) - Val(data[i - periods]), Val(data[i - periods])>>)
            ELSE None]

\* Series.shift(n)
shift(series, n) ==
    [i \in 1..Len(series) |-> IF (i - n) \in 1..Len(series) THEN series[i - n] ELSE None]

\* momentum.iloc[-1] for one column
latest_momentum(series, cfg, pad) ==
    LET momentum == shift(pct_change(series, cfg.MOMENTUM_LOOKBACK - cfg.MOMENTUM_LAG, pad),
                          cfg.MOMENTUM_LAG)
    IN  momentum[Len(momentum)]

calculate_12_2_momentum(df, prices, cfg, pad) ==
    LET assigned == [i \in 1..Len(df.rows) |->
                        [df.rows[i] EXCEPT !.Momentum =
                            IF df.rows[i].ticker \in DOMAIN prices
                            THEN latest_momentum(prices[df.rows[i].ticker], cfg, pad)
                            ELSE None]]
    IN  [rows |-> SelectSeq(assigned, LAMBDA r : ~IsNull(r.Momentum)),
         columns |-> df.columns \cup {"Momentum"}]

\* ---- _apply_smoothness_filter ----------------------------------------------
\* np.sum(x > 0) over monthly_returns.iloc[-MOMENTUM_LOOKBACK:]
positive_months_count(series, cfg, pad) ==
    LET monthly_returns == pct_change(series, 1, pad)
        n == Len(monthly_returns)
        from == IF cfg.MOMENTUM_LOOKBACK = 0 \/ cfg.MOMENTUM_LOOKBACK >= n THEN 1
                ELSE n - cfg.MOMENTUM_LOOKBACK + 1
    IN  Cardinality({i \in from..n :
                        ~IsNull(monthly_returns[i]) /\ Val(monthly_returns[i])[1] > 0})

apply_smoothness_filter(df, prices, cfg, pad) ==
    LET positive == SelectSeq(df.rows, LAMBDA r : Val(r.Momentum)[1] > 0)
        counted  == [i \in 1..Len(positive) |->
                        [positive[i] EXCEPT !.PositiveMonths =
                            IF positive[i].ticker \in DOMAIN prices
                            THEN Some(positive_months_count(prices[positive[i].ticker], cfg, pad))
                            ELSE None]]
    IN  [rows |-> SelectSeq(counted, LAMBDA r :
                      ~IsNull(r.PositiveMonths)
                      /\ Val(r.PositiveMonths) >= cfg.SMOOTHNESS_MIN_POSITIVE_MONTHS),
         columns |-> df.columns \cup {"PositiveMonths"}]

\* ---- _apply_volatility_screen ----------------------------------------------
apply_volatility_screen(df, vol, cfg) ==
    LET assigned == [i \in 1..Len(df.rows) |->
                        [df.rows[i] EXCEPT !.Volatility =
                            IF df.rows[i].ticker \in DOMAIN vol
                            THEN vol[df.rows[i].ticker] ELSE None]]
        scored   == SelectSeq(assigned, LAMBDA r : ~IsNull(r.Volatility))
        vols     == [i \in 1..Len(scored) |-> Val(scored[i].Volatility)]
    IN  [rows |-> IF scored = <<>> THEN <<>>
                  ELSE SelectSeq(scored, LAMBDA r :
                           LeRatio(Val(r.Volatility),
                                   Quantile(vols, cfg.VOLATILITY_CUTOFF_PERCENTILE))),
         columns |-> df.columns \cup {"Volatility"}]

\* pd.DataFrame(index=self.historical_data['Adj Close'].columns)
HistoryIndexFrame(info, prices) ==
    LET have == SelectSeq(info, LAMBDA e : e.ticker \in DOMAIN prices)
    IN  [rows |-> [i \in 1..Len(have) |-> Row(have[i].ticker, None, "")],
         columns |-> {}]

\* self.eligible_stocks.join(info_df, how='inner')
join_inner(df, info) ==
    LET both == SelectSeq(df.rows, LAMBDA r : \E i \in 1..Len(info) : info[i].ticker = r.ticker)
        entry(t) == info[CHOOSE i \in 1..Len(info) : info[i].ticker = t]
    IN  [rows |-> [i \in 1..Len(both) |->
                      [both[i] EXCEPT !.marketCap = entry(both[i].ticker).marketCap,
                                      !.sector = entry(both[i].ticker).sector]],
         columns |-> df.columns \cup {"marketCap", "sector"}]

\* ---- ranking and selection (generate_target_portfolio, lines 163-187) ------
\* mutant of rank_first: equal values are ranked in reverse encounter order
rank_ties_reversed(rows) ==
    [i \in 1..Len(rows) |->
        1 + Cardinality({j \in 1..Len(rows) :
                            GtRatio(Val(rows[j].Momentum), Val(rows[i].Momentum))})
          + Cardinality({j \in (i + 1)..Len(rows) :
                            ~GtRatio(Val(rows[j].Momentum), Val(rows[i].Momentum))
                            /\ ~GtRatio(Val(rows[i].Momentum), Val(rows[j].Momentum))})]

\* Series.rank(ascending=False, method='first')
rank_first(rows) ==
    [i \in 1..Len(rows) |->
        1 + Cardinality({j \in 1..Len(rows) :
                            GtRatio(Val(rows[j].Momentum), Val(rows[i].Momentum))})
          + Cardinality({j \in 1..(i - 1) :
                            ~GtRatio(Val(rows[j].Momentum), Val(rows[i].Momentum))
                            /\ ~GtRatio(Val(rows[i].Momentum), Val(rows[j].Momentum))})]

\* pd.qcut(x, q, labels=False, duplicates='drop') + 1 for integer values x:
\* the bin edges are the quantiles 0/q .. q/q of x (linear interpolation, kept
\* here as numerators over q), repeated edges are dropped, a value lies in the
\* bin whose right edge is the first edge not below it, the lowest edge belongs
\* to the first bin, and a value that falls in no bin (a single edge is left)
\* gets NaN
qcut_plus_one(x, q) ==
    IF x = <<>> THEN <<>>
    ELSE
    LET sorted == [k \in 1..Len(x) |-> KthSmallest(x, k)]
        n == Len(x)
        edge(k) == LET lo == ((n - 1) * k) \div q
                       fr == ((n - 1) * k) % q
                       a  == sorted[lo + 1]
                       b  == sorted[Min2(lo + 2, n)]
                   IN  a * q + fr * (b - a)
        edges == {edge(k) : k \in 0..q}
        lowest == sorted[1] * q
        count == [v \in Range(x) |-> Cardinality({e \in edges : e < v * q})]
        size == Cardinality(edges)
    IN  [i \in 1..n |->
            LET ids == IF x[i] * q = lowest THEN 1 ELSE count[x[i]]
            IN  IF ids = size \/ ids = 0 THEN None ELSE Some(ids)]

\* line 167, the number of quantiles asked for
Deciles == 10

\* sort_values(by='Rank') of a frame whose Rank column is filled
sort_by_rank(rows) ==
    [k \in 1..Len(rows) |-> rows[CHOOSE i \in 1..Len(rows) : Val(rows[i].Rank) = k]]

\* mutant of cutoff_n: a cutoff that rounds to 0 is not forced to 1
cutoff_n_unforced(n, cutoff) == (n * cutoff[1]) \div cutoff[2]

\* cutoff_n = int(len(report_df) * TOP_PERCENTILE_CUTOFF), forced to 1 when it
\* is 0 and the report is not empty
cutoff_n(n, cutoff) ==
    LET c == (n * cutoff[1]) \div cutoff[2]
    IN  IF c = 0 /\ n > 0 THEN 1 ELSE c

\* DataFrame.head(n) / DataFrame.tail(n), n >= 0
head(rows, n) == SubSeq(rows, 1, Min2(n, Len(rows)))
\* mutant of tail: one row too many
tail_one_more(rows, n) == SubSeq(rows, Len(rows) - Min2(n + 1, Len(rows)) + 1, Len(rows))
tail(rows, n) == SubSeq(rows, Len(rows) - Min2(n, Len(rows)) + 1, Len(rows))

TickersOf(rows) == [i \in 1..Len(rows) |-> rows[i].ticker]

rank_and_select(df, cfg) ==
    LET ranks  == rank_first(df.rows)
        deciles == qcut_plus_one(ranks, Deciles)
        ranked == [i \in 1..Len(df.rows) |->
                      [df.rows[i] EXCEPT !.Rank = Some(ranks[i]), !.Decile = deciles[i]]]
        report == sort_by_rank(ranked)
        n      == cutoff_n(Len(report), cfg.TOP_PERCENTILE_CUTOFF)
    IN  [longs  |-> TickersOf(head(report, n)),
         shorts |-> TickersOf(tail(report, n)),
         report |-> [rows |-> report, columns |-> df.columns \cup {"Rank", "Decile"}]]

(***************************************************************************)
(* generate_target_portfolio, one action per step of the method            *)
(***************************************************************************)
NoResult == [longs |-> <<>>, shorts |-> <<>>, report |-> EmptyFrame]

\* lines 147-149: FROG_IN_PAN starts from every ticker with price history and
\* applies the volatility screen
VolatilityScreen ==
    /\ cpc = "start"
    /\ config.STRATEGY_NAME = "FROG_IN_PAN"
    /\ eligible_stocks' = apply_volatility_screen(
                              HistoryIndexFrame(company_info, monthly_prices),
                              daily_volatility, config)
    /\ cpc' = "join"
    /\ UNCHANGED <<config, company_info, monthly_prices, daily_volatility, fill_pad, result>>
    /\ UNCHANGED <<rvars, dvars, qvars>>

\* lines 150-151: join the screened tickers with the company info
JoinCompanyInfo ==
    /\ cpc = "join"
    /\ eligible_stocks' = join_inner(eligible_stocks, company_info)
    /\ cpc' = "filters"
    /\ UNCHANGED <<config, company_info, monthly_prices, daily_volatility, fill_pad, result>>
    /\ UNCHANGED <<rvars, dvars, qvars>>

\* lines 152-156: _apply_universe_filters assigns self.eligible_stocks from a frame
\* it builds itself from company_info; the other strategies then add an empty
\* Volatility column
UniverseFilters ==
    /\ \/ cpc = "filters"
       \/ cpc = "start" /\ config.STRATEGY_NAME # "FROG_IN_PAN"
    /\ LET filtered == apply_universe_filters(company_info, config)
       IN  eligible_stocks' =
               IF config.STRATEGY_NAME = "FROG_IN_PAN" THEN filtered
               ELSE [filtered EXCEPT !.columns = @ \cup {"Volatility"}]
    /\ cpc' = "momentum"
    /\ UNCHANGED <<config, company_info, monthly_prices, daily_volatility, fill_pad, result>>
    /\ UNCHANGED <<rvars, dvars, qvars>>

\* line 158
CalculateMomentum ==
    /\ cpc = "momentum"
    /\ eligible_stocks' = calculate_12_2_momentum(eligible_stocks, monthly_prices,
                                                  config, fill_pad)
    /\ cpc' = IF config.STRATEGY_NAME = "SMOOTH" THEN "smooth" ELSE "rank"
    /\ UNCHANGED <<config, company_info, monthly_prices, daily_volatility, fill_pad, result>>
    /\ UNCHANGED <<rvars, dvars, qvars>>

\* lines 160-161
SmoothnessFilter ==
    /\ cpc = "smooth"
    /\ eligible_stocks' = apply_smoothness_filter(eligible_stocks, monthly_prices,
                                                  config, fill_pad)
    /\ cpc' = "rank"
    /\ UNCHANGED <<config, company_info, monthly_prices, daily_volatility, fill_pad, result>>
    /\ UNCHANGED <<rvars, dvars, qvars>>

\* lines 163-189
RankAndSelect ==
    /\ cpc = "rank"
    /\ result' = rank_and_select(eligible_stocks, config)
    /\ eligible_stocks' = [rows |-> [i \in 1..Len(eligible_stocks.rows) |->
                                        [eligible_stocks.rows[i] EXCEPT
                                            !.Rank = Some(rank_first(eligible_stocks.rows)[i]),
                                            !.Decile = qcut_plus_one(rank_first(eligible_stocks.rows),
                                                                     Deciles)[i]]],
                           columns |-> eligible_stocks.columns \cup {"Rank", "Decile"}]
    /\ cpc' = "done"
    /\ UNCHANGED <<config, company_info, monthly_prices, daily_volatility, fill_pad>>
    /\ UNCHANGED <<rvars, dvars, qvars>>

(***************************************************************************)
(* Inputs of the constructor                                               *)
(***************************************************************************)
SelectUniverse == 4    \* most tickers in a run that exercises ranking and selection
FilterUniverse == 3    \* most tickers in a run that exercises the universe filters
ScreenUniverse == 3    \* most tickers in a run that exercises the volatility screen
MaxCap == 2            \* largest market cap
MaxVol == 2            \* largest volatility score
MaxClose == 2          \* largest adjusted close of a drawn price series
SeriesLen == 4         \* months of history of a drawn price series

Symbols == <<"T1", "T2", "T3", "T4", "T5", "T6", "T7", "T8">>
Strategies == {"CORE", "SMOOTH", "FROG_IN_PAN"}
ExcludedSectors == {"Financial Services", "Financials"}

BaseConfig ==
    [STRATEGY_NAME |-> "CORE",
     MOMENTUM_LOOKBACK |-> 3,
     MOMENTUM_LAG |-> 1,
     TOP_PERCENTILE_CUTOFF |-> <<1, 100>>,
     LIQUIDITY_FILTER_PERCENTILE |-> <<1, 5>>,
     SMOOTHNESS_MIN_POSITIVE_MONTHS |-> 1,
     VOLATILITY_CUTOFF_PERCENTILE |-> <<4, 5>>,
     SECTORS_TO_EXCLUDE |-> ExcludedSectors]

Nullable(S) == {None} \cup {Some(v) : v \in S}

\* three price histories: momentum +1, momentum 0, no momentum (too short)
SeriesUp   == <<Some(1), Some(1), Some(2), Some(2)>>
SeriesFlat == <<Some(2), Some(2), Some(2), Some(2)>>
SeriesNew  == <<None, Some(1), Some(1), Some(1)>>

\* company_info over the first n symbols, caps and sectors given per symbol
Info(n, caps, sectors) ==
    [i \in 1..n |-> [ticker |-> Symbols[i], marketCap |-> caps[i], sector |-> sectors[i]]]
FirstSymbols(n) == {Symbols[i] : i \in 1..n}

CStart ==
    /\ eligible_stocks = EmptyFrame
    /\ result = NoResult
    /\ cpc = "start"

\* runs that exercise ranking and selection: every strategy and cutoff, up to
\* SelectUniverse tickers with equal caps, momentum +1, 0 or undefined
InitSelect ==
    \E n \in 1..SelectUniverse :
        /\ config \in {[BaseConfig EXCEPT !.STRATEGY_NAME = s, !.TOP_PERCENTILE_CUTOFF = c] :
                          s \in Strategies,
                          c \in {<<1, 100>>, <<1, 10>>, <<1, 3>>, <<1, 2>>, <<2, 3>>}}
        /\ company_info = Info(n, [i \in 1..n |-> Some(1)], [i \in 1..n |-> "Technology"])
        /\ monthly_prices \in [FirstSymbols(n) -> {SeriesUp, SeriesFlat, SeriesNew}]
        /\ daily_volatility = [t \in FirstSymbols(n) |-> Some(1)]
        /\ fill_pad = FALSE
        /\ CStart

\* runs that exercise the universe filters: caps, sectors, percentile and the
\* excluded-sector set vary
InitFilter ==
    \E n \in 1..FilterUniverse :
        /\ config \in {[BaseConfig EXCEPT !.LIQUIDITY_FILTER_PERCENTILE = q,
                                          !.SECTORS_TO_EXCLUDE = x] :
                          q \in {<<0, 1>>, <<1, 5>>, <<1, 2>>},
                          x \in {{}, ExcludedSectors}}
        /\ \E caps \in [1..n -> Nullable(1..MaxCap)],
              sectors \in [1..n -> {"Technology", "Financials"}] :
              company_info = Info(n, caps, sectors)
        /\ monthly_prices = [t \in FirstSymbols(n) |-> SeriesUp]
        /\ daily_volatility = [t \in FirstSymbols(n) |-> Some(1)]
        /\ fill_pad = FALSE
        /\ CStart

\* the literal liquidity example: caps 10, 20, 30, 40, 50 and percentile 0.20
LiteralCaps == <<10, 20, 30, 40, 50>>
InitLiteralCaps ==
    /\ config = [BaseConfig EXCEPT !.SECTORS_TO_EXCLUDE = {}]
    /\ company_info = Info(5, [i \in 1..5 |-> Some(LiteralCaps[i])],
                           [i \in 1..5 |-> "Technology"])
    /\ monthly_prices = [t \in FirstSymbols(5) |-> SeriesUp]
    /\ daily_volatility = [t \in FirstSymbols(5) |-> Some(1)]
    /\ fill_pad = FALSE
    /\ CStart

\* runs that exercise the volatility screen: volatility and caps vary
InitScreen ==
    \E n \in 1..ScreenUniverse :
        /\ config \in {[BaseConfig EXCEPT !.STRATEGY_NAME = s,
                                          !.VOLATILITY_CUTOFF_PERCENTILE = q] :
                          s \in {"CORE", "FROG_IN_PAN"}, q \in {<<1, 2>>, <<4, 5>>}}
        /\ \E caps \in [1..n -> {None, Some(1)}] :
              company_info = Info(n, caps, [i \in 1..n |-> "Technology"])
        /\ monthly_prices = [t \in FirstSymbols(n) |-> SeriesUp]
        /\ daily_volatility \in [FirstSymbols(n) -> Nullable(1..MaxVol)]
        /\ fill_pad = FALSE
        /\ CStart

\* runs that exercise the momentum formula: one ticker, every price series of
\* SeriesLen months with gaps, every lookback > lag >= 0, both pct_change behaviours
InitMomentum ==
    /\ config \in {[BaseConfig EXCEPT !.MOMENTUM_LOOKBACK = l, !.MOMENTUM_LAG = g] :
                      l \in 1..(SeriesLen - 1), g \in 0..(SeriesLen - 1)}
    /\ config.MOMENTUM_LAG < config.MOMENTUM_LOOKBACK
    /\ company_info = Info(1, <<Some(1)>>, <<"Technology">>)
    /\ monthly_prices \in [FirstSymbols(1) -> [1..SeriesLen -> Nullable(1..MaxClose)]]
    /\ daily_volatility = [t \in FirstSymbols(1) |-> Some(1)]
    /\ fill_pad \in BOOLEAN
    /\ CStart

\* the literal 12-2 example: thirteen month-end prices, lookback 12, lag 2
LiteralPrices == <<100, 105, 110, 95, 120, 125, 130, 128, 140, 150, 160, 155, 170>>
InitLiteralPrices ==
    /\ config = [BaseConfig EXCEPT !.MOMENTUM_LOOKBACK = 12, !.MOMENTUM_LAG = 2]
    /\ company_info = Info(1, <<Some(1)>>, <<"Technology">>)
    /\ monthly_prices = [t \in FirstSymbols(1) |->
                            [i \in 1..Len(LiteralPrices) |-> Some(LiteralPrices[i])]]
    /\ daily_volatility = [t \in FirstSymbols(1) |-> Some(1)]
    /\ fill_pad \in BOOLEAN
    /\ CStart

\* a configuration whose lookback does not exceed its lag (periods = L - G <= 0)
InitBadLookback ==
    /\ config \in {[BaseConfig EXCEPT !.STRATEGY_NAME = s, !.MOMENTUM_LOOKBACK = l,
                                      !.MOMENTUM_LAG = g] :
                      s \in {"CORE", "SMOOTH"},
                      l \in 1..(SeriesLen - 1), g \in 1..(SeriesLen - 1)}
    /\ config.MOMENTUM_LOOKBACK <= config.MOMENTUM_LAG
    /\ company_info = Info(1, <<Some(1)>>, <<"Technology">>)
    /\ monthly_prices \in [FirstSymbols(1) -> {SeriesUp, SeriesFlat, SeriesNew}]
    /\ daily_volatility = [t \in FirstSymbols(1) |-> Some(1)]
    /\ fill_pad \in BOOLEAN
    /\ CStart

\* a STRATEGY_NAME that is none of the three the method compares with
UnknownStrategies == {"MEAN_REVERSION", "core"}
InitUnknownStrategy ==
    \E n \in 1..2 :
        /\ config \in {[BaseConfig EXCEPT !.STRATEGY_NAME = s] : s \in UnknownStrategies}
        /\ company_info = Info(n, [i \in 1..n |-> Some(1)], [i \in 1..n |-> "Technology"])
        /\ monthly_prices \in [FirstSymbols(n) -> {SeriesUp, SeriesFlat}]
        /\ daily_volatility = [t \in FirstSymbols(n) |-> Some(1)]
        /\ fill_pad = FALSE
        /\ CStart

\* the rebalance cycle is not running
RIdle ==
    /\ cash = 0
    /\ positions = <<>>
    /\ target_portfolio = [longs |-> {}, shorts |-> {}]
    /\ live_prices = <<>>
    /\ total_portfolio_value = 0
    /\ all_orders = <<>>
    /\ prev_positions = <<>>
    /\ prev_cash = 0
    /\ passes = 0
    /\ pc = "idle"

\* the constructor is not running
CIdle ==
    /\ config = BaseConfig
    /\ company_info = <<>>
    /\ monthly_prices = <<>>
    /\ daily_volatility = <<>>
    /\ fill_pad = FALSE
    /\ eligible_stocks = EmptyFrame
    /\ result = NoResult
    /\ cpc = "idle"

\* no state file is in use and no workflow is running
DIdle ==
    /\ disk = <<>>
    /\ cycle = 0
    /\ started = {}
    /\ placed = <<>>
    /\ disk_before = <<>>
    /\ script = <<>>
    /\ books = <<>>
    /\ save_result = "none"

\* a handler that has not been connected
HIdle ==
    /\ req_id_counter = 0
    /\ order_id_counter = 0
    /\ futures = <<>>
    /\ pending = {}
    /\ req_ids = <<>>
    /\ order_ids = <<>>

\* no quote request is in flight
QIdle ==
    /\ requested = <<>>
    /\ tasks = <<>>
    /\ completed = <<>>
    /\ connected = FALSE
    /\ HIdle

CInit ==
    /\ RIdle
    /\ DIdle
    /\ QIdle
    /\ \/ InitSelect
       \/ InitFilter
       \/ InitLiteralCaps
       \/ InitScreen
       \/ InitMomentum
       \/ InitLiteralPrices
       \/ InitBadLookback
       \/ InitUnknownStrategy

CNext ==
    \/ VolatilityScreen
    \/ JoinCompanyInfo
    \/ UniverseFilters
    \/ CalculateMomentum
    \/ SmoothnessFilter
    \/ RankAndSelect

(***************************************************************************)
(* Claims about the portfolio constructor                                  *)
(***************************************************************************)
Done == cpc = "done"                        \* generate_target_portfolio has returned
Survivors == Len(result.report.rows)        \* N, the rows of the ranked report
LongSet == Range(result.longs)
ShortSet == Range(result.shorts)

\* max(1, floor(N x c)) for N > 0, and 0 for N = 0
BucketSize(n, c) ==
    IF n = 0 THEN 0
    ELSE IF (n * c[1]) \div c[2] < 1 THEN 1 ELSE (n * c[1]) \div c[2]

\* C4: for every output of generate_target_portfolio, whatever the number of
\* survivors and the cutoff, longs and shorts have no ticker in common.
C4_LongsShortsNeverOverlap == Done => LongSet \cap ShortSet = {}

\* C5: whenever the number of survivors is at least 2 x cutoff_n, the longs and
\* shorts produced by generate_target_portfolio are disjoint.
C5_DisjointWhenEnoughSurvivors ==
    (Done /\ Survivors >= 2 * BucketSize(Survivors, config.TOP_PERCENTILE_CUTOFF))
        => LongSet \cap ShortSet = {}

\* four survivors and cutoff 1/2: two longs, two shorts, exactly 2 x cutoff_n rows
C5_Witness ==
    /\ Done
    /\ Survivors = 4
    /\ config.TOP_PERCENTILE_CUTOFF = <<1, 2>>
    /\ Len(result.longs) = 2
    /\ Len(result.shorts) = 2

\* C6: with N survivors and cutoff c in (0,1): for N > 0 both longs and shorts hold
\* exactly max(1, floor(N x c)) tickers; for N = 0 both are empty.
C6_BucketSize ==
    Done =>
        LET k == BucketSize(Survivors, config.TOP_PERCENTILE_CUTOFF)
        IN  /\ Len(result.longs) = k /\ Cardinality(LongSet) = k
            /\ Len(result.shorts) = k /\ Cardinality(ShortSet) = k
            /\ Survivors = 0 => (result.longs = <<>> /\ result.shorts = <<>>)

\* four survivors and cutoff 2/3: floor(8/3) = 2 tickers on each side
C6_Witness ==
    /\ Done
    /\ Survivors = 4
    /\ config.TOP_PERCENTILE_CUTOFF = <<2, 3>>
    /\ Len(result.longs) = 2

\* the tickers the volatility screen keeps: a defined volatility that does not
\* exceed the VOLATILITY_CUTOFF_PERCENTILE quantile
ScreenSurvivors ==
    Index(apply_volatility_screen(HistoryIndexFrame(company_info, monthly_prices),
                                  daily_volatility, config))

\* C7: for strategy FROG_IN_PAN every ticker of the ranked report (and so of longs
\* and shorts) survived the volatility screen; a ticker the screen dropped does not
\* reappear after the universe filters and the momentum step.
C7_ReportWithinVolatilityScreen ==
    (Done /\ config.STRATEGY_NAME = "FROG_IN_PAN")
        => Index(result.report) \subseteq ScreenSurvivors

Filtered == cpc = "momentum"                \* _apply_universe_filters has returned

\* C8: the liquidity filter and the sector filter commute: liquidity then sector
\* (what _apply_universe_filters leaves in eligible_stocks) is sector then liquidity.
C8_FiltersCommute ==
    Filtered =>
        TickersOf(eligible_stocks.rows) =
            TickersOf(filterLiquidity(filterSectors(InfoFrame(company_info),
                                                    config.SECTORS_TO_EXCLUDE),
                                      config.LIQUIDITY_FILTER_PERCENTILE).rows)

KnownCaps ==
    LET known == SelectSeq(company_info, LAMBDA e : ~IsNull(e.marketCap))
    IN  [i \in 1..Len(known) |-> Val(known[i].marketCap)]

\* C8 (amended): the sector filter commutes with the liquidity comparison against a
\* fixed cutoff, the quantile of all known market caps: the survivors of
\* _apply_universe_filters are the entries outside the excluded sectors whose cap is
\* known and not below that cutoff.
C8_CommuteAtPopulationCutoff ==
    Filtered =>
        TickersOf(eligible_stocks.rows) =
            TickersOf(SelectSeq(filterSectors(InfoFrame(company_info),
                                              config.SECTORS_TO_EXCLUDE).rows,
                                LAMBDA r : /\ ~IsNull(r.marketCap)
                                           /\ GeRatio(Val(r.marketCap),
                                                      Quantile(KnownCaps,
                                                               config.LIQUIDITY_FILTER_PERCENTILE))))

\* an excluded-sector entry with a known cap, an entry dropped for its cap alone,
\* and a survivor
C8_Witness ==
    /\ Filtered
    /\ eligible_stocks.rows # <<>>
    /\ \E i \in 1..Len(company_info) :
          /\ company_info[i].sector \in config.SECTORS_TO_EXCLUDE
          /\ ~IsNull(company_info[i].marketCap)
    /\ \E i \in 1..Len(company_info) :
          /\ company_info[i].sector \notin config.SECTORS_TO_EXCLUDE
          /\ ~IsNull(company_info[i].marketCap)
          /\ company_info[i].ticker \notin Index(eligible_stocks)

RECURSIVE SortAscending(_)
\* reference sort of a sequence of integers
SortAscending(vals) ==
    IF vals = <<>> THEN <<>>
    ELSE LET m == CHOOSE i \in 1..Len(vals) : \A j \in 1..Len(vals) : vals[i] <= vals[j]
         IN  <<vals[m]>> \o SortAscending(SubSeq(vals, 1, m - 1) \o SubSeq(vals, m + 1, Len(vals)))

\* cap is strictly below the q-quantile (linear interpolation) of the known caps
BelowQuantile(cap, q) ==
    LET srt == SortAscending(KnownCaps)
        n   == Len(srt)
        lo  == ((n - 1) * q[1]) \div q[2] + 1
        hi  == IF lo < n THEN lo + 1 ELSE n
        fr  == ((n - 1) * q[1]) % q[2]
    IN  cap * q[2] < srt[lo] * q[2] + fr * (srt[hi] - srt[lo])

NoSectorExcluded ==
    \A i \in 1..Len(company_info) : company_info[i].sector \notin config.SECTORS_TO_EXCLUDE

\* C9: the liquidity filter drops every entry with a missing market cap, takes the
\* quantile over the remaining entries only, and keeps exactly the entries whose cap
\* is not strictly below it; for caps 10, 20, 30, 40, 50 and percentile 0.20 exactly
\* the entry with cap 10 goes; with percentile 0 only missing caps are dropped.
C9_LiquidityFilter ==
    (Filtered /\ NoSectorExcluded) =>
        /\ Index(eligible_stocks) =
              {company_info[i].ticker : i \in
                  {j \in 1..Len(company_info) :
                      /\ ~IsNull(company_info[j].marketCap)
                      /\ ~BelowQuantile(Val(company_info[j].marketCap),
                                        config.LIQUIDITY_FILTER_PERCENTILE)}}
        /\ (KnownCaps = LiteralCaps /\ config.LIQUIDITY_FILTER_PERCENTILE = <<1, 5>>)
              => TickersOf(eligible_stocks.rows) = <<"T2", "T3", "T4", "T5">>
        /\ config.LIQUIDITY_FILTER_PERCENTILE[1] = 0
              => Index(eligible_stocks) =
                    {company_info[i].ticker : i \in
                        {j \in 1..Len(company_info) : ~IsNull(company_info[j].marketCap)}}

\* an entry without cap is dropped, an entry below the quantile is dropped, one stays
C9_Witness ==
    /\ Filtered
    /\ NoSectorExcluded
    /\ eligible_stocks.rows # <<>>
    /\ \E i \in 1..Len(company_info) : IsNull(company_info[i].marketCap)
    /\ \E i \in 1..Len(company_info) :
          /\ ~IsNull(company_info[i].marketCap)
          /\ company_info[i].ticker \notin Index(eligible_stocks)

\* _calculate_12_2_momentum has just returned
MomentumAssigned ==
    \/ cpc = "smooth"
    \/ cpc = "rank" /\ config.STRATEGY_NAME # "SMOOTH"

\* the row of ticker t in eligible_stocks
RowOf(t) == eligible_stocks.rows[CHOOSE i \in 1..Len(eligible_stocks.rows) :
                                    eligible_stocks.rows[i].ticker = t]

\* C10: with the latest observation at index t, lookback L and lag G, the momentum
\* of a ticker is price[t-G] / price[t-L] - 1; a ticker for which either price is
\* unavailable gets no momentum and is dropped from the eligible set.  Stated for
\* the tickers that passed the universe filters.
C10_MomentumFormula ==
    MomentumAssigned =>
        \A s \in Index(apply_universe_filters(company_info, config)) :
            LET p == monthly_prices[s]
                t == Len(p)
                iG == t - config.MOMENTUM_LAG
                iL == t - config.MOMENTUM_LOOKBACK
                available == /\ iG \in 1..t /\ iL \in 1..t
                             /\ ~IsNull(p[iG]) /\ ~IsNull(p[iL])
            IN  IF available
                THEN /\ s \in Index(eligible_stocks)
                     /\ LET m == Val(RowOf(s).Momentum)
                        IN  m[1] * Val(p[iL]) = (Val(p[iG]) - Val(p[iL])) * m[2]
                ELSE s \notin Index(eligible_stocks)

\* _calculate_12_2_momentum has not returned
BeforeMomentum == cpc \in {"idle", "start", "join", "filters", "momentum"}

\* C11: when MOMENTUM_LOOKBACK <= MOMENTUM_LAG the momentum calculation fails with
\* a configuration error: it never returns, so no ticker is assigned a momentum
\* (zero or any other value) and no target portfolio is produced.
C11_BadLookbackFailsFast ==
    (config.MOMENTUM_LOOKBACK <= config.MOMENTUM_LAG) => BeforeMomentum

\* C12: generate_target_portfolio with a STRATEGY_NAME outside CORE, SMOOTH,
\* FROG_IN_PAN raises before any step of a known strategy runs on eligible_stocks
\* and returns no target portfolio.
C12_UnknownStrategyRejected ==
    (config.STRATEGY_NAME \notin Strategies) =>
        /\ cpc \in {"idle", "start"}
        /\ eligible_stocks = EmptyFrame
        /\ result = NoResult

\* the survivors in encounter order, with the rank they were given
Ranked == eligible_stocks.rows
MomentumOf(i) == Val(Ranked[i].Momentum)
RankOf(i) == Val(Ranked[i].Rank)

\* the tickers whose rank lies in lo..hi, by increasing rank
TickersRanked(lo, hi) ==
    [k \in 1..(hi - lo + 1) |->
        Ranked[CHOOSE i \in 1..Len(Ranked) : RankOf(i) = lo + k - 1].ticker]

\* C24: the ranks of the N survivors are exactly 1..N, none shared; strictly
\* greater momentum means a smaller rank and equal momentum is ranked in
\* encounter order; the report is sorted by rank; longs are the tickers of
\* ranks 1..cutoff_n and shorts the tickers of the cutoff_n largest ranks.
C24_RankAndSelect ==
    Done =>
        LET N == Len(Ranked)
            n == BucketSize(N, config.TOP_PERCENTILE_CUTOFF)
        IN  /\ Survivors = N
            /\ {RankOf(i) : i \in 1..N} = 1..N
            /\ \A i, j \in 1..N :
                  /\ GtRatio(MomentumOf(i), MomentumOf(j)) => RankOf(i) < RankOf(j)
                  /\ (i < j /\ ~GtRatio(MomentumOf(i), MomentumOf(j))
                            /\ ~GtRatio(MomentumOf(j), MomentumOf(i))) => RankOf(i) < RankOf(j)
            /\ \A k \in 1..N : Val(result.report.rows[k].Rank) = k
            /\ result.longs = TickersRanked(1, n)
            /\ result.shorts = TickersRanked(N - n + 1, N)

\* three or more survivors, two of them with equal momentum and a later one
\* with strictly greater momentum than an earlier one
C24_Witness ==
    /\ Done
    /\ Len(Ranked) >= 3
    /\ \E i, j \in 1..Len(Ranked) :
          /\ i < j
          /\ ~GtRatio(MomentumOf(i), MomentumOf(j))
          /\ ~GtRatio(MomentumOf(j), MomentumOf(i))
    /\ \E i, j \in 1..Len(Ranked) : i < j /\ GtRatio(MomentumOf(j), MomentumOf(i))
    /\ Len(result.longs) >= 2

\* C25: when fewer than 10 tickers survive, every survivor is assigned
\* decile 1 in the report.
C25_FewSurvivorsDecileOne ==
    (Done /\ Survivors < Deciles) =>
        \A k \in 1..Survivors : result.report.rows[k].Decile = Some(1)

(***************************************************************************)
(* Part III.  SimulatedPortfolioManager and its state file                 *)
(*                                                                         *)
(* A state file is None (no file at csv_path) or Some(record): the CASH    *)
(* row, the rows of the positions as written, and whether read_csv and the *)
(* CASH lookup succeed on it.  Quantities in a file are integers, so       *)
(* astype(int) leaves them as they are.                                    *)
(***************************************************************************)
MaxOrders == 2     \* longest order list of one simulate_trades call

File(csh, pos, ok) == [cash |-> csh, positions |-> pos, readable |-> ok]
Book(csh, pos) == [cash |-> csh, positions |-> pos]

\* initial_cash, the argument of the constructor
InitialCash == MaxCash

\* the effect of portfolio_df.to_csv(self.csv_path): the file is written, or the
\* write raises (the exception is logged and swallowed) and leaves the old file
\* or a truncated one
save_portfolio(dsk, path, csh, pos, outcome) ==
    IF outcome = "written" THEN [dsk EXCEPT ![path] = Some(File(csh, pos, TRUE))]
    ELSE IF outcome = "truncated" THEN [dsk EXCEPT ![path] = Some(File(0, <<>>, FALSE))]
    ELSE dsk
SaveOutcomes == {"written", "failed", "truncated"}

\* save_portfolio, lines 64-79: what the caller sees; the except of line 78
\* logs the failure and the method returns normally
save_reports(outcome) == "returned"

\* _load_portfolio: the book read from an existing, readable file; every row that
\* is not CASH becomes a position
load_portfolio(file) == Book(file.cash, file.positions)

\* __init__: the book and the disk after construction
construct(dsk, path, outcome) ==
    IF ~IsNull(dsk[path]) /\ Val(dsk[path]).readable
    THEN [book |-> load_portfolio(Val(dsk[path])), disk |-> dsk, save_result |-> "none"]
    ELSE [book |-> Book(InitialCash, <<>>),
          disk |-> save_portfolio(dsk, path, InitialCash, <<>>, outcome),
          save_result |-> save_reports(outcome)]

\* ---- callers of the book ---------------------------------------------------
TradeActions == {"BUY", "SELL", "SSHORT"}
TradeOrders == {Order(a, t, q) : a \in TradeActions, t \in Tickers, q \in {1, MaxQty}}
OrderLists == UNION {[1..n -> TradeOrders] : n \in 0..MaxOrders}
TradePrices == UNION {[S -> {1, MaxPrice}] : S \in SUBSET Tickers}
Call(orders, prices) == [orders |-> orders, prices |-> prices]

\* the state files a run can find: none, an unreadable one, or a book whose rows
\* hold integer quantities
FilePositions == UNION {[H -> {-MaxQty, 0, 1}] : H \in SUBSET Tickers}
StateFiles == {None, Some(File(0, <<>>, FALSE))}
                  \cup {Some(File(MaxCash, pos, TRUE)) : pos \in FilePositions}
HeldFile == Some(File(MaxCash, [t \in Tickers |-> IF t = Universe[1] THEN 1 ELSE -MaxQty], TRUE))

BStart ==
    /\ cash = InitialCash
    /\ positions = <<>>
    /\ target_portfolio = [longs |-> {}, shorts |-> {}]
    /\ live_prices = <<>>
    /\ total_portfolio_value = 0
    /\ all_orders = <<>>
    /\ prev_positions = <<>>
    /\ prev_cash = InitialCash
    /\ passes = 0
    /\ pc = "construct"
    /\ cycle = 1
    /\ started = {}
    /\ placed = <<>>
    /\ disk_before = <<>>
    /\ books = <<>>
    /\ save_result = "none"

\* one call with any order list and any prices, on a new book or a loaded one
InitAnyCall ==
    /\ disk \in [{1} -> {None, HeldFile}]
    /\ script \in {<<Call(os, pr)>> : os \in OrderLists, pr \in TradePrices}
    /\ BStart

\* any state file, followed by one single-order call at full prices
InitAnyFile ==
    /\ disk \in [{1} -> StateFiles]
    /\ script \in {<<Call(<<o>>, [t \in Tickers |-> 1])>> : o \in TradeOrders}
    /\ BStart

\* two single-order calls, each at its own prices for every ticker
InitTwoCalls ==
    /\ disk \in [{1} -> {None, HeldFile}]
    /\ script \in {<<Call(<<o1>>, p1), Call(<<o2>>, p2)>> :
                      o1 \in TradeOrders, o2 \in TradeOrders,
                      p1 \in [Tickers -> {1, MaxPrice}], p2 \in [Tickers -> {1, MaxPrice}]}
    /\ BStart

\* the literal fill example: cash 10000, BUY 10 at 150, then SELL 10 at 160
LiteralFill == <<Call(<<Order("BUY", Universe[1], 10)>>, [t \in {Universe[1]} |-> 150]),
                 Call(<<Order("SELL", Universe[1], 10)>>, [t \in {Universe[1]} |-> 160])>>
InitLiteralFill ==
    /\ disk = [f \in {1} |-> Some(File(10000, <<>>, TRUE))]
    /\ script = LiteralFill
    /\ BStart

BInit ==
    /\ CIdle
    /\ QIdle
    /\ \/ InitAnyCall
       \/ InitAnyFile
       \/ InitTwoCalls
       \/ InitLiteralFill

\* SimulatedPortfolioManager(csv_path, initial_cash)
LoadPortfolio ==
    /\ pc = "construct"
    /\ \E outcome \in SaveOutcomes :
          LET made == construct(disk, cycle, outcome)
          IN  /\ cash' = made.book.cash
              /\ positions' = made.book.positions
              /\ disk' = made.disk
              /\ books' = <<made.book>>
              /\ save_result' = made.save_result
    /\ pc' = "ready"
    /\ UNCHANGED <<target_portfolio, live_prices, total_portfolio_value, all_orders,
                   prev_positions, prev_cash, passes>>
    /\ UNCHANGED <<cycle, started, placed, disk_before, script>>
    /\ UNCHANGED <<cvars, qvars>>

\* sim_portfolio.simulate_trades(orders, prices), the next call of the script
SimulateTrades ==
    /\ pc = "ready"
    /\ passes < Len(script)
    /\ LET call == script[passes + 1]
           book == simulate_trades(Book(cash, positions), call.orders, call.prices)
       IN  /\ cash' = book.cash
           /\ positions' = book.positions
           /\ all_orders' = call.orders
           /\ live_prices' = call.prices
           /\ books' = Append(books, book)
    /\ prev_positions' = positions
    /\ prev_cash' = cash
    /\ passes' = passes + 1
    /\ UNCHANGED <<target_portfolio, total_portfolio_value, pc>>
    /\ save_result' = "none"
    /\ UNCHANGED <<disk, cycle, started, placed, disk_before, script>>
    /\ UNCHANGED <<cvars, qvars>>

\* sim_portfolio.save_portfolio()
SavePortfolio ==
    /\ pc = "ready"
    /\ \E outcome \in SaveOutcomes :
          /\ disk' = save_portfolio(disk, cycle, cash, positions, outcome)
          /\ save_result' = save_reports(outcome)
    /\ UNCHANGED rvars
    /\ UNCHANGED <<cycle, started, placed, disk_before, script, books>>
    /\ UNCHANGED <<cvars, qvars>>

BNext == LoadPortfolio \/ SimulateTrades \/ SavePortfolio

(***************************************************************************)
(* Claims about the Position Book                                          *)
(***************************************************************************)
\* simulate_trades has returned at least once
Traded == pc = "ready" /\ passes >= 1 /\ cycle = 1 /\ script # <<>>
QtyIn(pos, t) == IF t \in DOMAIN pos THEN pos[t] ELSE 0
\* the change of quantity an order asks for
Signed(o) == IF o.action = "BUY" THEN o.quantity ELSE -o.quantity
Priced(o) == o.ticker \in DOMAIN live_prices

\* BUY q of a ticker not held, then SELL q of it, both priced, in two calls
RoundTrip ==
    /\ Traded /\ passes = 2
    /\ Len(script[1].orders) = 1 /\ Len(script[2].orders) = 1
    /\ script[1].orders[1].action = "BUY" /\ script[2].orders[1].action = "SELL"
    /\ script[1].orders[1].ticker = script[2].orders[1].ticker
    /\ script[1].orders[1].quantity = script[2].orders[1].quantity
    /\ script[1].orders[1].ticker \in DOMAIN script[1].prices
    /\ script[1].orders[1].ticker \in DOMAIN script[2].prices
    /\ script[1].orders[1].ticker \notin DOMAIN books[1].positions

\* C14: simulate_trades applies a priced order exactly: BUY q at p lowers cash by
\* q x p and raises the quantity by q; SELL and the short sale raise cash by q x p
\* and lower the quantity by q (possibly below zero).  BUY q at p1 then SELL q at
\* p2 of a ticker not held changes cash by q x (p2 - p1) and leaves no entry for
\* it; from cash 10000, BUY 10 at 150 gives 8500 and {10}, SELL 10 at 160 gives
\* 10100 and no entry.
C14_FillArithmetic ==
    /\ (Traded /\ Len(all_orders) = 1 /\ Priced(all_orders[1])) =>
          LET o == all_orders[1]
              v == o.quantity * live_prices[o.ticker]
          IN  /\ o.action = "BUY" =>
                    /\ cash = prev_cash - v
                    /\ QtyIn(positions, o.ticker) = QtyIn(prev_positions, o.ticker) + o.quantity
              /\ o.action \in {"SELL", "SSHORT"} =>
                    /\ cash = prev_cash + v
                    /\ QtyIn(positions, o.ticker) = QtyIn(prev_positions, o.ticker) - o.quantity
    /\ RoundTrip =>
          LET o == script[1].orders[1]
          IN  /\ cash = books[1].cash
                           + o.quantity * (script[2].prices[o.ticker] - script[1].prices[o.ticker])
              /\ o.ticker \notin DOMAIN positions
    /\ (Traded /\ script = LiteralFill) =>
          /\ passes = 1 => (cash = 8500 /\ positions = [t \in {Universe[1]} |-> 10])
          /\ passes = 2 => (cash = 10100 /\ DOMAIN positions = {})

\* a round trip bought at 1 and sold at MaxPrice
C14_Witness ==
    /\ RoundTrip
    /\ script[1].prices[script[1].orders[1].ticker] = 1
    /\ script[2].prices[script[1].orders[1].ticker] = MaxPrice
    /\ cash > books[1].cash

C16_UnpricedOrderSkipped ==
    Traded =>
        /\ (\A i \in 1..Len(all_orders) : ~Priced(all_orders[i])) =>
              (cash = prev_cash /\ positions = prev_positions)
        /\ (Len(all_orders) = 2 /\ ~Priced(all_orders[1]) /\ Priced(all_orders[2])) =>
              LET o == all_orders[2]
              IN  /\ cash = prev_cash - Signed(o) * live_prices[o.ticker]
                  /\ QtyIn(positions, o.ticker) = QtyIn(prev_positions, o.ticker) + Signed(o)
                  /\ \A t \in Tickers \ {o.ticker} :
                        /\ (t \in DOMAIN positions) = (t \in DOMAIN prev_positions)
                        /\ QtyIn(positions, t) = QtyIn(prev_positions, t)

\* an unpriced order on a held ticker, followed by a priced order that is applied
C16_Witness ==
    /\ Traded
    /\ Len(all_orders) = 2 /\ ~Priced(all_orders[1]) /\ Priced(all_orders[2])
    /\ all_orders[1].ticker \in DOMAIN prev_positions
    /\ cash # prev_cash

\* C23: when the state file cannot be written, save_portfolio shows its
\* caller an error: a save that returned normally has left the file holding
\* the book in memory.
C23_SaveFailureSurfaced ==
    (save_result = "returned" /\ cycle = 1 /\ pc = "ready") =>
        disk[cycle] = Some(File(cash, positions, TRUE))

(***************************************************************************)
(* Part IV.  run_simulation_workflow: the loop over the due (strategy,     *)
(* timeframe) cycles, one state file per cycle.                            *)
(*                                                                         *)
(* The loop body has no exception handler of its own: the only handlers    *)
(* around it are the except (KeyboardInterrupt, SystemExit) of step 8 and  *)
(* the finally that disconnects, so an exception raised in a cycle leaves  *)
(* run_simulation_workflow.                                                *)
(***************************************************************************)
DueCycles == 2     \* the (strategy, timeframe) combinations due in this run

\* main.py lines 88-89
strategies_to_run == <<"CORE", "SMOOTH", "FROG_IN_PAN">>
timeframes_to_run == <<"MONTHLY", "WEEKLY", "DAILY">>

\* line 93 on a day on which every timeframe is due (a Monday that is the
\* first business day of its month)
timeframes_due == timeframes_to_run

\* lines 123-124: the (timeframe, strategy) combinations in loop order
RunOrder ==
    [k \in 1..(Len(timeframes_due) * Len(strategies_to_run)) |->
        [timeframe |-> timeframes_due[((k - 1) \div Len(strategies_to_run)) + 1],
         strategy_name |-> strategies_to_run[((k - 1) % Len(strategies_to_run)) + 1]]]

\* the state file name without the strategy in it
portfolio_file_no_strategy(strategy_name, timeframe) ==
    timeframe \o "_portfolio_state.csv"

\* line 131
portfolio_file(strategy_name, timeframe) ==
    strategy_name \o "_" \o timeframe \o "_portfolio_state.csv"

\* the state file of the c-th cycle of the run
PathOf(c) == portfolio_file(RunOrder[c].strategy_name, RunOrder[c].timeframe)

\* the state files of the cycles the model runs
WPaths == {PathOf(c) : c \in 1..DueCycles}


WTargets == {[longs |-> {}, shorts |-> {}],
             [longs |-> {Universe[1]}, shorts |-> {Universe[2]}],
             [longs |-> {Universe[2]}, shorts |-> {}]}

\* line 159
tickers_needed(pos, tgt) == (DOMAIN pos) \cup tgt.longs \cup tgt.shorts

\* the results get_current_stock_prices_for_tickers can return for these tickers
QuoteResults(needed) ==
    {[t \in needed |-> 1], [t \in needed |-> MaxPrice],
     [t \in needed \ {Universe[2]} |-> 1]}

\* the orders of all_orders that reached the broker
Submitted(orders, reached) ==
    LET idx == SelectSeq([i \in 1..Len(reached) |-> i], LAMBDA i : reached[i])
    IN  [k \in 1..Len(idx) |-> orders[idx[k]]]

WInit ==
    /\ CIdle
    /\ QIdle
    /\ disk \in [WPaths -> {None, HeldFile}]
    /\ cycle = 1
    /\ started = {}
    /\ placed = <<>>
    /\ disk_before = disk
    /\ script = <<>>
    /\ books = <<>>
    /\ save_result = "none"
    /\ cash = InitialCash
    /\ positions = <<>>
    /\ target_portfolio = [longs |-> {}, shorts |-> {}]
    /\ live_prices = <<>>
    /\ total_portfolio_value = 0
    /\ all_orders = <<>>
    /\ prev_positions = <<>>
    /\ prev_cash = InitialCash
    /\ passes = 0
    /\ pc = "w_start"

\* lines 125-135: the cycle begins and loads (or creates) its book
StartCycle ==
    /\ pc = "w_start"
    /\ started' = started \cup {cycle}
    /\ \E outcome \in {"written", "failed"} :
          LET made == construct(disk, PathOf(cycle), outcome)
          IN  /\ cash' = made.book.cash
              /\ positions' = made.book.positions
              /\ disk' = made.disk
              /\ disk_before' = made.disk
              /\ books' = <<made.book>>
              /\ save_result' = made.save_result
    /\ placed' = <<>>
    /\ all_orders' = <<>>
    /\ live_prices' = <<>>
    /\ total_portfolio_value' = 0
    /\ target_portfolio' = [longs |-> {}, shorts |-> {}]
    /\ pc' = "w_construct"
    /\ UNCHANGED <<prev_positions, prev_cash, passes, cycle, script>>
    /\ UNCHANGED <<cvars, qvars>>

\* line 140 against PortfolioConstructor.generate_target_portfolio(self): the
\* keyword argument timeframe is not accepted and the call raises TypeError
ConstructRaises ==
    /\ pc = "w_construct"
    /\ pc' = "w_error"
    /\ UNCHANGED <<cash, positions, target_portfolio, live_prices, total_portfolio_value,
                   all_orders, prev_positions, prev_cash, passes>>
    /\ UNCHANGED <<dvars, cvars, qvars>>

\* line 140 against a constructor that accepts timeframe: a target portfolio
Construct ==
    /\ pc = "w_construct"
    /\ target_portfolio' \in WTargets
    /\ pc' = "w_prices"
    /\ UNCHANGED <<cash, positions, live_prices, total_portfolio_value,
                   all_orders, prev_positions, prev_cash, passes>>
    /\ UNCHANGED <<dvars, cvars, qvars>>

\* lines 159-162: the quotes of the tickers needed
FetchPrices ==
    /\ pc = "w_prices"
    /\ live_prices' \in QuoteResults(tickers_needed(positions, target_portfolio))
    /\ pc' = "w_calc"
    /\ UNCHANGED <<cash, positions, target_portfolio, total_portfolio_value,
                   all_orders, prev_positions, prev_cash, passes>>
    /\ UNCHANGED <<dvars, cvars, qvars>>

\* line 161 when the handler has lost its connection: ConnectionError
FetchPricesRaises ==
    /\ pc = "w_prices"
    /\ pc' = "w_error"
    /\ UNCHANGED <<cash, positions, target_portfolio, live_prices, total_portfolio_value,
                   all_orders, prev_positions, prev_cash, passes>>
    /\ UNCHANGED <<dvars, cvars, qvars>>

\* lines 164-187: valuation and trade calculation; without orders step 8 is skipped
CalculateOrders ==
    /\ pc = "w_calc"
    /\ LET value == get_total_value(cash, positions, live_prices)
           orders == calculate_rebalance_orders(target_portfolio, positions, value, live_prices)
       IN  /\ total_portfolio_value' = value
           /\ all_orders' = orders
           /\ pc' = IF orders = <<>> THEN "w_simulate" ELSE "w_prompt"
    /\ UNCHANGED <<cash, positions, target_portfolio, live_prices,
                   prev_positions, prev_cash, passes>>
    /\ UNCHANGED <<dvars, cvars, qvars>>

\* lines 190-193: the user types 'skip'
PromptSkip ==
    /\ pc = "w_prompt"
    /\ pc' = "w_simulate"
    /\ UNCHANGED <<cash, positions, target_portfolio, live_prices, total_portfolio_value,
                   all_orders, prev_positions, prev_cash, passes>>
    /\ UNCHANGED <<dvars, cvars, qvars>>

\* lines 194-197: the user presses Enter and execute_rebalance_orders is entered
PromptConfirm ==
    /\ pc = "w_prompt"
    /\ pc' = "w_execute"
    /\ UNCHANGED <<cash, positions, target_portfolio, live_prices, total_portfolio_value,
                   all_orders, prev_positions, prev_cash, passes>>
    /\ UNCHANGED <<dvars, cvars, qvars>>

\* execute_rebalance_orders, line 162, for a config without
\* EXECUTE_ORDERS_OUTSIDE_RTH: AttributeError before the first order is placed
ExecuteRaises ==
    /\ pc = "w_execute"
    /\ placed = <<>>
    /\ pc' = "w_error"
    /\ UNCHANGED <<cash, positions, target_portfolio, live_prices, total_portfolio_value,
                   all_orders, prev_positions, prev_cash, passes>>
    /\ UNCHANGED <<dvars, cvars, qvars>>

\* execute_rebalance_orders, one iteration of the loop: the order reaches the
\* broker (placeOrder was called), or execute_order_async raised before placing it
\* and the exception was logged
PlaceOrder ==
    /\ pc = "w_execute"
    /\ Len(placed) < Len(all_orders)
    /\ \E reached \in BOOLEAN : placed' = Append(placed, reached)
    /\ pc' = IF Len(placed) + 1 = Len(all_orders) THEN "w_simulate" ELSE "w_execute"
    /\ UNCHANGED <<cash, positions, target_portfolio, live_prices, total_portfolio_value,
                   all_orders, prev_positions, prev_cash, passes>>
    /\ UNCHANGED <<disk, cycle, started, disk_before, script, books, save_result>>
    /\ UNCHANGED <<cvars, qvars>>

\* mutant of Interrupt: the handler simulates and saves before it returns
Interrupt_saves ==
    /\ pc \in {"w_prompt", "w_execute"}
    /\ LET book == simulate_trades(Book(cash, positions), all_orders, live_prices)
       IN  /\ cash' = book.cash
           /\ positions' = book.positions
           /\ disk' = save_portfolio(disk, PathOf(cycle), book.cash, book.positions, "written")
           /\ save_result' = save_reports("written")
    /\ pc' = "w_interrupted"
    /\ UNCHANGED <<target_portfolio, live_prices, total_portfolio_value,
                   all_orders, prev_positions, prev_cash, passes>>
    /\ UNCHANGED <<cycle, started, placed, disk_before, script, books>>
    /\ UNCHANGED <<cvars, qvars>>

\* lines 199-203: KeyboardInterrupt or SystemExit at the prompt or during the
\* execution: the workflow returns
Interrupt ==
    /\ pc \in {"w_prompt", "w_execute"}
    /\ pc' = "w_interrupted"
    /\ UNCHANGED <<cash, positions, target_portfolio, live_prices, total_portfolio_value,
                   all_orders, prev_positions, prev_cash, passes>>
    /\ UNCHANGED <<dvars, cvars, qvars>>

\* lines 205-208 and the loop header: simulate the trades, save the state file,
\* go to the next due cycle
SimulateAndSave ==
    /\ pc = "w_simulate"
    /\ LET book == simulate_trades(Book(cash, positions), all_orders, live_prices)
       IN  /\ cash' = book.cash
           /\ positions' = book.positions
           /\ \E outcome \in {"written", "failed"} :
                 /\ disk' = save_portfolio(disk, PathOf(cycle), book.cash, book.positions, outcome)
                 /\ save_result' = save_reports(outcome)
    /\ prev_positions' = positions
    /\ prev_cash' = cash
    /\ cycle' = IF cycle < DueCycles THEN cycle + 1 ELSE cycle
    /\ pc' = IF cycle < DueCycles THEN "w_start" ELSE "w_finished"
    /\ UNCHANGED <<target_portfolio, live_prices, total_portfolio_value, all_orders, passes>>
    /\ UNCHANGED <<started, placed, disk_before, script, books>>
    /\ UNCHANGED <<cvars, qvars>>

WNext ==
    \/ StartCycle
    \/ ConstructRaises
    \/ Construct
    \/ FetchPrices
    \/ FetchPricesRaises
    \/ CalculateOrders
    \/ PromptSkip
    \/ PromptConfirm
    \/ ExecuteRaises
    \/ PlaceOrder
    \/ Interrupt
    \/ SimulateAndSave

(***************************************************************************)
(* Claims about run_simulation_workflow                                    *)
(***************************************************************************)
\* an exception raised in the current cycle has left run_simulation_workflow
CycleFailed == pc = "w_error"
\* the except branch of step 8 has returned from run_simulation_workflow
Interrupted == pc = "w_interrupted"
AllDue == 1..DueCycles

\* C13: an error raised inside one cycle is fatal for that cycle only: the cycle's
\* state file is as it was, and every remaining due cycle of the run is still
\* started.  Stated on the state in which the run has ended after such an error.
C13_ErrorFatalForCycleOnly ==
    CycleFailed => (disk[PathOf(cycle)] = disk_before[PathOf(cycle)] /\ started = AllDue)

BookAfterSubmitted ==
    simulate_trades(books[1], Submitted(all_orders, placed), live_prices)

C21_EveryOrderAttempted ==
    [][(pc = "w_execute" /\ pc' \notin {"w_execute", "w_interrupted"}) =>
          Len(placed') = Len(all_orders)]_<<rvars, cvars, dvars, qvars>>

\* a cycle is between the load of its book and the save
BetweenLoadAndSave ==
    pc \in {"w_construct", "w_prices", "w_calc", "w_prompt", "w_execute", "w_simulate"}

BookUpToDate ==
    LET book == simulate_trades(books[1], all_orders, live_prices)
    IN  /\ Book(cash, positions) = book
        /\ disk[PathOf(cycle)] = Some(File(book.cash, book.positions, TRUE))

QuoteLists ==
    {<<>>, <<Universe[1]>>, <<Universe[2]>>,
     <<Universe[1], Universe[2]>>, <<Universe[2], Universe[1]>>}

\* what a request has produced
Pending == [kind |-> "pending", price |-> 0]
Price(p) == [kind |-> "price", price |-> p]
NoPrice == [kind |-> "none", price |-> 0]
Raised == [kind |-> "raised", price |-> 0]

\* the tick types consulted, in the order of price_to_check
TickNames == <<"LAST", "DELAYED_LAST", "CLOSE", "DELAYED_CLOSE">>

\* a tick is absent, -1 (not available) or a price
TickValues == {None, Some(-1), Some(1), Some(MaxPrice)}

\* the snapshots the wrapper can deliver; a timeout or an API error leaves {}
Snapshots == [1..Len(TickNames) -> TickValues]

\* lines 111-125: the first tick that is present and positive
valid_price(snapshot_data) ==
    LET ok == {k \in 1..Len(TickNames) :
                  ~IsNull(snapshot_data[k]) /\ Val(snapshot_data[k]) > 0}
    IN  IF ok = {} THEN NoPrice
        ELSE Price(Val(snapshot_data[CHOOSE k \in ok : \A j \in ok : k <= j]))

\* asyncio.gather(*tasks, return_exceptions=True) as a list that follows
\* completion order instead of the order of its arguments
gather_as_completed(tsk, done) == [i \in 1..Len(tsk) |-> tsk[done[i]].outcome]

\* asyncio.gather(*tasks, return_exceptions=True): one result per task, in
\* the order of the tasks
gather(tsk, done) == [i \in 1..Len(tsk) |-> tsk[i].outcome]

\* lines 191-200: zip(tickers, results) into the returned dict
collect(tickers, results) ==
    LET priced == {i \in 1..Len(tickers) : results[i].kind = "price"}
        last(t) == CHOOSE i \in priced :
                      /\ tickers[i] = t
                      /\ \A j \in priced : tickers[j] = t => j <= i
    IN  [t \in {tickers[i] : i \in priced} |-> results[last(t)].price]

QInit ==
    /\ CIdle
    /\ DIdle
    /\ requested \in QuoteLists
    /\ tasks = <<>>
    /\ completed = <<>>
    /\ connected \in BOOLEAN
    /\ HIdle
    /\ cash = 0
    /\ positions = <<>>
    /\ target_portfolio = [longs |-> {}, shorts |-> {}]
    /\ live_prices = <<>>
    /\ total_portfolio_value = 0
    /\ all_orders = <<>>
    /\ prev_positions = <<>>
    /\ prev_cash = 0
    /\ passes = 0
    /\ pc = "q_call"

QRest == <<cash, positions, target_portfolio, total_portfolio_value,
           all_orders, prev_positions, prev_cash, passes, hvars>>

\* lines 180-182: the handler is not connected
QCallRaises ==
    /\ pc = "q_call"
    /\ ~connected
    /\ pc' = "q_raised"
    /\ UNCHANGED <<live_prices, QRest, qvars, cvars, dvars>>

\* lines 185-189: one coroutine per ticker, handed to gather
QCall ==
    /\ pc = "q_call"
    /\ connected
    /\ tasks' = [i \in 1..Len(requested) |-> [state |-> "created", outcome |-> Pending]]
    /\ pc' = "q_gather"
    /\ UNCHANGED <<live_prices, QRest, requested, completed, connected, cvars, dvars>>

\* task i leaves the await it is in with this outcome
Finish(i, outcome) ==
    /\ tasks' = [tasks EXCEPT ![i] = [state |-> "done", outcome |-> outcome]]
    /\ completed' = Append(completed, i)

\* lines 92-97 and resolve_contract_details_async 148-156: the task runs up
\* to its first await
TaskStart(i) ==
    /\ pc = "q_gather"
    /\ tasks[i].state = "created"
    /\ IF connected
       THEN /\ tasks' = [tasks EXCEPT ![i].state = "resolving"]
            /\ UNCHANGED completed
       ELSE Finish(i, NoPrice)
    /\ UNCHANGED <<pc, live_prices, QRest, requested, connected, cvars, dvars>>

\* lines 97-104 and request_market_data_snapshot_async 201-210: the contract
\* resolution answers (None on timeout or API error), then the snapshot
\* request is sent
ResolveReturns(i, qualified) ==
    /\ pc = "q_gather"
    /\ tasks[i].state = "resolving"
    /\ IF ~qualified THEN Finish(i, NoPrice)
       ELSE IF ~connected THEN Finish(i, Raised)
       ELSE /\ tasks' = [tasks EXCEPT ![i].state = "snapshot"]
            /\ UNCHANGED completed
    /\ UNCHANGED <<pc, live_prices, QRest, requested, connected, cvars, dvars>>

\* lines 104-125: the snapshot answers
SnapshotReturns(i, snapshot_data) ==
    /\ pc = "q_gather"
    /\ tasks[i].state = "snapshot"
    /\ Finish(i, valid_price(snapshot_data))
    /\ UNCHANGED <<pc, live_prices, QRest, requested, connected, cvars, dvars>>

\* the client thread ends while requests are in flight
Disconnect ==
    /\ pc = "q_gather"
    /\ connected
    /\ connected' = FALSE
    /\ UNCHANGED <<pc, live_prices, QRest, requested, tasks, completed, cvars, dvars>>

\* lines 189-200: every task has finished; the results are collected
QCollect ==
    /\ pc = "q_gather"
    /\ \A i \in 1..Len(tasks) : tasks[i].state = "done"
    /\ live_prices' = collect(requested, gather(tasks, completed))
    /\ pc' = "q_returned"
    /\ UNCHANGED <<QRest, qvars, cvars, dvars>>

QNext ==
    \/ QCallRaises
    \/ QCall
    \/ \E i \in 1..Len(tasks) : TaskStart(i)
    \/ \E i \in 1..Len(tasks) : \E qualified \in BOOLEAN : ResolveReturns(i, qualified)
    \/ \E i \in 1..Len(tasks) : \E snapshot_data \in Snapshots : SnapshotReturns(i, snapshot_data)
    \/ Disconnect
    \/ QCollect

(***************************************************************************)
(* Claims about the quote fan-out                                          *)
(***************************************************************************)

Returned == pc = "q_returned"

\* the positions of tickers whose own request produced a price
ProducedPrice == {i \in 1..Len(requested) : tasks[i].outcome.kind = "price"}

\* C20: the returned mapping contains a ticker exactly when that ticker's own
\* request produced a price, with that price; a request that raised, timed out
\* or found no price leaves out only its own ticker, no request is left
\* unfinished or cancelled, whatever the order in which the requests completed.
C20_QuotesIsolated ==
    Returned =>
        /\ Len(tasks) = Len(requested)
        /\ \A i \in 1..Len(tasks) :
              tasks[i].state = "done" /\ tasks[i].outcome.kind \in {"price", "none", "raised"}
        /\ DOMAIN live_prices = {requested[i] : i \in ProducedPrice}
        /\ \A i \in ProducedPrice : live_prices[requested[i]] = tasks[i].outcome.price

\* the second request completed first with a price, the first one raised
C20_Witness ==
    /\ Returned
    /\ completed = <<2, 1>>
    /\ tasks[1].outcome = Raised
    /\ tasks[2].outcome = Price(MaxPrice)
    /\ DOMAIN live_prices = {requested[2]}

(***************************************************************************)
(* Part VI: IBKRBaseHandler, the ids under which futures are registered    *)
(*                                                                         *)
(* One connected handler; contract or quote requests and order submissions *)
(* start and finish in any interleaving.                                   *)
(***************************************************************************)
MaxOperations == 4     \* requests and orders started on the handler

\* the nextValidId values TWS hands out at connection
NextValidIds == {1, 2}

\* an operation that registers a future: its kind and its id
Operation(kind, id) == [kind |-> kind, id |-> id]

\* connect, lines 119-127: both counters start at wrapper.next_valid_order_id
HInit ==
    /\ CIdle
    /\ DIdle
    /\ requested = <<>>
    /\ tasks = <<>>
    /\ completed = <<>>
    /\ connected = TRUE
    /\ \E next_valid_order_id \in NextValidIds :
          /\ req_id_counter = next_valid_order_id
          /\ order_id_counter = next_valid_order_id
    /\ futures = <<>>
    /\ pending = {}
    /\ req_ids = <<>>
    /\ order_ids = <<>>
    /\ cash = 0
    /\ positions = <<>>
    /\ target_portfolio = [longs |-> {}, shorts |-> {}]
    /\ live_prices = <<>>
    /\ total_portfolio_value = 0
    /\ all_orders = <<>>
    /\ prev_positions = <<>>
    /\ prev_cash = 0
    /\ passes = 0
    /\ pc = "h_connected"

HRest == <<requested, tasks, completed, connected, rvars, cvars, dvars>>

\* get_next_req_id, lines 67-72: the counter is advanced, then returned
get_next_req_id(counter) == [id |-> counter + 1, counter |-> counter + 1]

\* get_next_order_id, lines 79-82: the counter is returned, then advanced
get_next_order_id(counter) == [id |-> counter, counter |-> counter + 1]

\* resolve_contract_details_async lines 151-156 and
\* request_market_data_snapshot_async lines 204-210: take an id, register the future
StartRequest ==
    /\ pc = "h_connected"
    /\ Len(req_ids) + Len(order_ids) < MaxOperations
    /\ LET got == get_next_req_id(req_id_counter)
       IN  /\ req_id_counter' = got.counter
           /\ futures' = DictSet(futures, got.id, Operation("request", got.id))
           /\ pending' = pending \cup {Operation("request", got.id)}
           /\ req_ids' = Append(req_ids, got.id)
    /\ UNCHANGED <<order_id_counter, order_ids, HRest>>

\* execute_order_async lines 181-188: take an id, register the future, place the order
StartOrder ==
    /\ pc = "h_connected"
    /\ Len(req_ids) + Len(order_ids) < MaxOperations
    /\ LET got == get_next_order_id(order_id_counter)
       IN  /\ order_id_counter' = got.counter
           /\ futures' = DictSet(futures, got.id, Operation("order", got.id))
           /\ pending' = pending \cup {Operation("order", got.id)}
           /\ order_ids' = Append(order_ids, got.id)
    /\ UNCHANGED <<req_id_counter, req_ids, HRest>>

\* the finally of lines 175, 198 and 219: the operation ends (answer, timeout or
\* error) and pops the entry of its id
Finish_op(op) ==
    /\ pc = "h_connected"
    /\ op \in pending
    /\ pending' = pending \ {op}
    /\ futures' = DictDel(futures, op.id)
    /\ UNCHANGED <<req_id_counter, order_id_counter, req_ids, order_ids, HRest>>

FinishRequest == \E op \in pending : op.kind = "request" /\ Finish_op(op)

FinishOrder == \E op \in pending : op.kind = "order" /\ Finish_op(op)

HNext == StartRequest \/ StartOrder \/ FinishRequest \/ FinishOrder

(***************************************************************************)
(* Claims about the ids                                                    *)
(***************************************************************************)
Distinct(ids) == \A i, j \in 1..Len(ids) : i # j => ids[i] # ids[j]

\* C30: on one connected handler the keys of wrapper.futures are unique: the
\* request ids are pairwise distinct, the order ids are pairwise distinct, no
\* order id equals a request id, and so the future of a pending operation is
\* never overwritten or popped by another operation.
C30_FutureKeysUnique ==
    /\ Distinct(req_ids)
    /\ Distinct(order_ids)
    /\ Range(req_ids) \cap Range(order_ids) = {}
    /\ \A op \in pending : op.id \in DOMAIN futures /\ futures[op.id] = op

vars == <<rvars, cvars, dvars, qvars>>

Init == RInit /\ CIdle /\ DIdle /\ QIdle
Next == RNext
Spec == Init /\ [][Next]_vars

SpecConstructor == CInit /\ [][CNext]_vars

SpecBook == BInit /\ [][BNext]_vars

SpecWorkflow == WInit /\ [][WNext]_vars

SpecQuotes == QInit /\ [][QNext]_vars

SpecIds == HInit /\ [][HNext]_vars

====
